---- MODULE Spec2Model ----
(***************************************************************************)
(* Order / invoice lifecycle and sequential numbering of the backend       *)
(* (orders, billing, inventory apps).  Money is kept in hundredths (the    *)
(* DecimalField(decimal_places=2) columns), dates in days, identifiers as  *)
(* sequences of characters.                                                *)
(***************************************************************************)
EXTENDS Integers, Sequences, FiniteSets, TLC

\* ---------------------------------------------------------------- bounds
MaxOrders == 2        \* order primary keys handed out
MaxItems == 2         \* items in one create request
MaxInvoices == 2      \* invoice primary keys handed out
MaxPayments == 2      \* payments per invoice
MaxEvents == 1        \* delivery status events per order
MaxNotes == 1         \* credit note primary keys handed out
MaxStock == 2         \* cap on a product's stock_quantity
MaxMovements == 2     \* stock movements created
MaxMovedStock == 5    \* cap on a product's stock_quantity once stock movements raise it
MaxDay == 1           \* days the clock advances
MaxRequests == 1      \* requests each concurrent worker handles

\* ------------------------------------------------------- program constants
NumberWidth == 6      \* zfill(6)
DueDays == 30         \* timedelta(days=30)
DefaultTaxRate == 2000 \* Decimal('20.00'), in hundredths
None == 0 - 1         \* Python None in a numeric field

\* ------------------------------------------------------------------ enums
OrderStatus == {"PE", "CO", "PR", "RD", "IT", "DE", "CA"}
PENDING == "PE"
DELIVERED == "DE"
CANCELLED == "CA"
InvoiceStatus == {"DR", "PE", "PA", "PP", "OV", "CA"}
INV_PENDING == "PE"
INV_PAID == "PA"
INV_PARTIALLY_PAID == "PP"

\* ------------------------------------------------ str / zfill / int, slices
Digits == <<"0", "1", "2", "3", "4", "5", "6", "7", "8", "9">>

RECURSIVE str(_)
str(n) == IF n < 10 THEN <<Digits[n + 1]>>
          ELSE str(n \div 10) \o <<Digits[(n % 10) + 1]>>

RECURSIVE zfill(_, _)
zfill(s, width) == IF Len(s) >= width THEN s ELSE zfill(<<"0">> \o s, width)

DigitValue(c) == CHOOSE v \in 0..9 : Digits[v + 1] = c

RECURSIVE int(_)
int(s) == IF Len(s) = 1 THEN DigitValue(s[1])
          ELSE int(SubSeq(s, 1, Len(s) - 1)) * 10 + DigitValue(s[Len(s)])

\* s[k:] of Python, k counted from 0
Slice(s, k) == SubSeq(s, k + 1, Len(s))

\* the numeric suffix of an identifier with a prefix of k characters
Suffix(number, k) == int(Slice(number, k))

\* --------------------------------------------------------- table helpers
EmptyTable == [i \in {} |-> 0]
Max(S) == CHOOSE x \in S : \A y \in S : y <= x
\* Model.objects.order_by('-id').first(): the pk of the row, 0 when none
LastId(table) == IF DOMAIN table = {} THEN 0 ELSE Max(DOMAIN table)
Insert(table, id, row) == [i \in DOMAIN table \cup {id} |-> IF i = id THEN row ELSE table[i]]
Delete(table, id) == [i \in DOMAIN table \ {id} |-> table[i]]

RECURSIVE SumSeq(_, _)
SumSeq(s, k) == IF k = 0 THEN 0 ELSE SumSeq(s, k - 1) + s[k]

\* Decimal.quantize to two places (ROUND_HALF_EVEN) of num/den, num >= 0
Quantize(num, den) ==
    LET q == num \div den
        r == num % den
    IN  IF 2 * r < den THEN q
        ELSE IF 2 * r > den THEN q + 1
        ELSE IF q % 2 = 0 THEN q ELSE q + 1

\* ------------------------------------------------------------------ state
VARIABLES
    products,        \* Product rows: id -> [price, stock_quantity]
    orders,          \* Order rows: id -> [order_number, status, total_amount]
    orderSeq,        \* last primary key handed out to an Order
    items,           \* OrderItem rows of each order (order.items), in creation order
    deliveries,      \* DeliveryStatus rows of each order (order.delivery_updates)
    invoices,        \* Invoice rows: id -> [invoice_number, order, status, dates, amounts]
    invoiceSeq,      \* last primary key handed out to an Invoice
    payments,        \* Payment rows of each invoice (invoice.payments): amounts
    creditNotes,     \* CreditNote rows: id -> [credit_note_number, invoice, amount]
    creditNoteSeq,   \* last primary key handed out to a CreditNote
    purchaseOrders,  \* PurchaseOrder rows: id -> [order_number]
    purchaseOrderSeq, \* last primary key handed out to a PurchaseOrder
    stockMovements,  \* StockMovement rows in primary-key order: [product, quantity]
    today,           \* timezone.now().date()
    procs,           \* requests in progress (concurrent specification)
    issued,          \* history: the numbers the generators returned, per entity type
    origin,          \* history: for each invoice ever created, who created it and
                     \* the status its order had at that moment
    ev               \* history: the last request handled and its response

dbvars == <<products, orders, orderSeq, items, deliveries, invoices, invoiceSeq,
            payments, creditNotes, creditNoteSeq, purchaseOrders, purchaseOrderSeq,
            stockMovements, issued, origin>>
vars == <<dbvars, today, procs, ev>>

\* the database (and its history) as one value, so that statements compose
DB == [products |-> products, orders |-> orders, orderSeq |-> orderSeq,
       items |-> items, deliveries |-> deliveries, invoices |-> invoices,
       invoiceSeq |-> invoiceSeq, payments |-> payments,
       creditNotes |-> creditNotes, creditNoteSeq |-> creditNoteSeq,
       purchaseOrders |-> purchaseOrders, purchaseOrderSeq |-> purchaseOrderSeq,
       stockMovements |-> stockMovements,
       issued |-> issued, origin |-> origin]

Commit(d) ==
    /\ products' = d.products
    /\ orders' = d.orders
    /\ orderSeq' = d.orderSeq
    /\ items' = d.items
    /\ deliveries' = d.deliveries
    /\ invoices' = d.invoices
    /\ invoiceSeq' = d.invoiceSeq
    /\ payments' = d.payments
    /\ creditNotes' = d.creditNotes
    /\ creditNoteSeq' = d.creditNoteSeq
    /\ purchaseOrders' = d.purchaseOrders
    /\ purchaseOrderSeq' = d.purchaseOrderSeq
    /\ stockMovements' = d.stockMovements
    /\ issued' = d.issued
    /\ origin' = d.origin

ProductIds == {1, 2}
UnknownProduct == Max(ProductIds) + 1
Fine == 100 * 100     \* in-memory Decimal values are kept in 1/Fine of a hundredth

Issue(d, kind, number) == [d EXCEPT !.issued[kind] = Append(@, number)]

\* ------------------------------------------------------- number generators
\* OrderNumber with zfill(5)
OrderNumber_short_pad(table) ==
    LET last_order == LastId(table)
    IN  IF last_order # 0
        THEN <<"O", "R", "D">> \o zfill(str(int(Slice(table[last_order].order_number, 3)) + 1), NumberWidth - 1)
        ELSE <<"O", "R", "D", "0", "0", "0", "0", "0", "1">>

\* OrderNumber that slices the last number at [4:]
OrderNumber_slice_four(table) ==
    LET last_order == LastId(table)
    IN  IF last_order # 0
        THEN <<"O", "R", "D">> \o zfill(str(int(Slice(table[last_order].order_number, 4)) + 1), NumberWidth)
        ELSE <<"O", "R", "D", "0", "0", "0", "0", "0", "1">>

\* OrderSerializer.create: the order number
OrderNumber(table) ==
    LET last_order == LastId(table)
    IN  IF last_order # 0
        THEN <<"O", "R", "D">> \o zfill(str(int(Slice(table[last_order].order_number, 3)) + 1), NumberWidth)
        ELSE <<"O", "R", "D", "0", "0", "0", "0", "0", "1">>

\* handle_order_status_change: the invoice number
SignalInvoiceNumber(table) ==
    LET last_invoice == LastId(table)
    IN  IF last_invoice # 0
        THEN <<"I", "N", "V">> \o zfill(str(int(Slice(table[last_invoice].invoice_number, 3)) + 1), NumberWidth)
        ELSE <<"I", "N", "V", "0", "0", "0", "0", "0", "1">>

\* InvoiceSerializer.create: the invoice number
InvoiceNumber(table) ==
    LET last_invoice == LastId(table)
    IN  IF last_invoice # 0
        THEN <<"I", "N", "V">> \o zfill(str(int(Slice(table[last_invoice].invoice_number, 3)) + 1), NumberWidth)
        ELSE <<"I", "N", "V", "0", "0", "0", "0", "0", "1">>

\* CreditNoteSerializer.create: the credit note number
CreditNoteNumber(table) ==
    LET last_cn == LastId(table)
    IN  IF last_cn # 0
        THEN <<"C", "N">> \o zfill(str(int(Slice(table[last_cn].credit_note_number, 2)) + 1), NumberWidth)
        ELSE <<"C", "N", "0", "0", "0", "0", "0", "1">>

\* PurchaseOrderSerializer.create: the purchase order number
PurchaseOrderNumber(table) ==
    LET last_po == LastId(table)
    IN  IF last_po # 0
        THEN <<"P", "O">> \o zfill(str(int(Slice(table[last_po].order_number, 2)) + 1), NumberWidth)
        ELSE <<"P", "O", "0", "0", "0", "0", "0", "1">>

\* ------------------------------------------------------------- billing rows
Falsy(x) == x = None \/ x = 0

\* Invoice.save: fills tax_amount and total_amount in when they are not set
Invoice_save(inv) ==
    LET tax == IF Falsy(inv.tax_amount)
               THEN (inv.subtotal * inv.tax_rate) \div Fine
               ELSE inv.tax_amount
        total == IF Falsy(inv.total_amount) THEN inv.subtotal + tax ELSE inv.total_amount
    IN  [inv EXCEPT !.tax_amount = tax, !.total_amount = total]

\* the row written for an Invoice instance: DecimalField(decimal_places=2)
InvoiceRow(inv) ==
    [invoice_number |-> inv.invoice_number, order |-> inv.order, status |-> inv.status,
     issue_date |-> inv.issue_date, due_date |-> inv.due_date,
     subtotal |-> Quantize(inv.subtotal, Fine), tax_rate |-> inv.tax_rate,
     tax_amount |-> Quantize(inv.tax_amount, Fine),
     total_amount |-> Quantize(inv.total_amount, Fine)]

\* an Invoice instance loaded from its row
InvoiceInstance(row) ==
    [row EXCEPT !.subtotal = @ * Fine, !.tax_amount = @ * Fine, !.total_amount = @ * Fine]

InvoiceOf(table, order) == {i \in DOMAIN table : table[i].order = order}

\* variant: an INSERT that tests the unique invoice_number only
InvoiceInsertAllowed_number_only(table, row) ==
    \A i \in DOMAIN table : table[i].invoice_number # row.invoice_number

\* INSERT of an invoice: invoice_number unique, order one-to-one
InvoiceInsertAllowed(table, row) ==
    /\ \A i \in DOMAIN table : table[i].invoice_number # row.invoice_number
    /\ InvoiceOf(table, row.order) = {}

\* Invoice.objects.create(...) / serializer save of a new invoice:
\* [ok, db]; ok is FALSE on IntegrityError (a unique constraint, or the
\* foreign key to an order that is gone)
Invoice_create(d, inv, by) ==
    LET row == InvoiceRow(Invoice_save(inv))
        id == d.invoiceSeq + 1
    IN  IF row.order \in DOMAIN d.orders /\ InvoiceInsertAllowed(d.invoices, row)
        THEN [ok |-> TRUE,
              db |-> [d EXCEPT !.invoices = Insert(@, id, row),
                               !.invoiceSeq = id,
                               !.payments = Insert(@, id, <<>>),
                               !.origin = Insert(@, id, [by |-> by,
                                             order_status |-> d.orders[row.order].status])]]
        ELSE [ok |-> FALSE, db |-> d]

\* SignalInvoice without `status=`: the invoice takes the default of the field
SignalInvoice_default_status(order_id, order, invoice_number, day) ==
    LET issue_date == day
        due_date == issue_date + DueDays
        tax_rate == DefaultTaxRate
        subtotal == order.total_amount * Fine
        tax_amount == (subtotal * tax_rate) \div Fine
        total_amount == subtotal + tax_amount
    IN  [invoice_number |-> invoice_number, order |-> order_id, status |-> "DR",
         issue_date |-> issue_date, due_date |-> due_date, subtotal |-> subtotal,
         tax_rate |-> tax_rate, tax_amount |-> tax_amount, total_amount |-> total_amount]

\* the invoice handle_order_status_change builds for a delivered order
SignalInvoice(order_id, order, invoice_number, day) ==
    LET issue_date == day
        due_date == issue_date + DueDays
        tax_rate == DefaultTaxRate
        subtotal == order.total_amount * Fine
        tax_amount == (subtotal * tax_rate) \div Fine
        total_amount == subtotal + tax_amount
    IN  [invoice_number |-> invoice_number, order |-> order_id, status |-> INV_PENDING,
         issue_date |-> issue_date, due_date |-> due_date, subtotal |-> subtotal,
         tax_rate |-> tax_rate, tax_amount |-> tax_amount, total_amount |-> total_amount]

\* handle_order_status_change with the test of `created` inverted
status_change_only_when_created(d, id, created, day) ==
    IF ~created THEN [ok |-> TRUE, db |-> d]
    ELSE IF d.orders[id].status = DELIVERED /\ InvoiceOf(d.invoices, id) = {}
    THEN LET invoice_number == SignalInvoiceNumber(d.invoices)
         IN  Invoice_create(Issue(d, "INV", invoice_number),
                            SignalInvoice(id, d.orders[id], invoice_number, day), "signal")
    ELSE [ok |-> TRUE, db |-> d]

\* handle_order_status_change without the test of the status
status_change_any_status(d, id, created, day) ==
    IF created THEN [ok |-> TRUE, db |-> d]
    ELSE IF InvoiceOf(d.invoices, id) = {}
    THEN LET invoice_number == SignalInvoiceNumber(d.invoices)
         IN  Invoice_create(Issue(d, "INV", invoice_number),
                            SignalInvoice(id, d.orders[id], invoice_number, day), "signal")
    ELSE [ok |-> TRUE, db |-> d]

\* post_save of Order: [ok, db]; ok is FALSE when the insert raises
handle_order_status_change(d, id, created, day) ==
    IF created THEN [ok |-> TRUE, db |-> d]
    ELSE IF d.orders[id].status = DELIVERED /\ InvoiceOf(d.invoices, id) = {}
    THEN LET invoice_number == SignalInvoiceNumber(d.invoices)
         IN  Invoice_create(Issue(d, "INV", invoice_number),
                            SignalInvoice(id, d.orders[id], invoice_number, day), "signal")
    ELSE [ok |-> TRUE, db |-> d]

\* order.save() of an existing order whose instance carries `row`
Order_save(d, id, row, day) ==
    handle_order_status_change([d EXCEPT !.orders[id] = row], id, FALSE, day)

\* order.delete(): cascades to the items and delivery statuses; the Invoice
\* foreign key is PROTECT
\* Order_delete_allowed for a foreign key declared CASCADE / DO_NOTHING
Order_delete_unprotected(d, id) == id \in DOMAIN d.orders

Order_delete_allowed(d, id) == InvoiceOf(d.invoices, id) = {}
Order_delete(d, id) ==
    [d EXCEPT !.orders = Delete(@, id), !.items = Delete(@, id),
              !.deliveries = Delete(@, id)]

\* --------------------------------------------------------- order creation
\* INSERT of an order: order_number is unique
OrderInsertAllowed(table, number) ==
    \A i \in DOMAIN table : table[i].order_number # number

\* OrderSerializer.create followed by the INSERT: the new order has total 0
\* and the status of the request (default Pending); [ok, id, db]
OrderSerializer_create(d, status) ==
    LET new_number == OrderNumber(d.orders)
        id == d.orderSeq + 1
        d1 == Issue(d, "ORD", new_number)
    IN  IF OrderInsertAllowed(d.orders, new_number)
        THEN [ok |-> TRUE, id |-> id,
              db |-> [d1 EXCEPT !.orders = Insert(@, id, [order_number |-> new_number,
                                                          status |-> status,
                                                          total_amount |-> 0]),
                                !.orderSeq = id,
                                !.items = Insert(@, id, <<>>),
                                !.deliveries = Insert(@, id, <<>>)]]
        ELSE [ok |-> FALSE, id |-> 0, db |-> d1]

\* process_item with `total_amount = item_total` in place of `+=`
process_item_overwrite(acc, item_data) ==
    LET product_id == item_data.product_id
        quantity == item_data.quantity
    IN  IF product_id = 0
        THEN [acc EXCEPT !.err = "ProductIdRequired"]
        ELSE IF product_id \notin DOMAIN acc.products
        THEN [acc EXCEPT !.err = "ProductNotFound"]
        ELSE LET product == acc.products[product_id]
             IN  IF product.stock_quantity < quantity
                 THEN [acc EXCEPT !.err = "InsufficientStock"]
                 ELSE LET unit_price == product.price
                          item_total == unit_price * quantity
                          saved == [acc.products EXCEPT
                                      ![product_id].stock_quantity = @ - quantity]
                      IN  IF quantity < 0
                          THEN [acc EXCEPT !.products = saved, !.err = "ItemError"]
                          ELSE [err |-> "ok", products |-> saved,
                                items |-> Append(acc.items,
                                            [product |-> product_id, quantity |-> quantity,
                                             unit_price |-> unit_price,
                                             total_price |-> quantity * unit_price]),
                                total_amount |-> item_total]

\* process_item without the test of the stock
process_item_unchecked(acc, item_data) ==
    LET product_id == item_data.product_id
        quantity == item_data.quantity
    IN  IF product_id = 0
        THEN [acc EXCEPT !.err = "ProductIdRequired"]
        ELSE IF product_id \notin DOMAIN acc.products
        THEN [acc EXCEPT !.err = "ProductNotFound"]
        ELSE LET product == acc.products[product_id]
                 unit_price == product.price
                 item_total == unit_price * quantity
                 saved == [acc.products EXCEPT
                             ![product_id].stock_quantity = @ - quantity]
             IN  IF quantity < 0
                 THEN [acc EXCEPT !.products = saved, !.err = "ItemError"]
                 ELSE [err |-> "ok", products |-> saved,
                       items |-> Append(acc.items,
                                   [product |-> product_id, quantity |-> quantity,
                                    unit_price |-> unit_price,
                                    total_price |-> quantity * unit_price]),
                       total_amount |-> acc.total_amount + item_total]

\* one round of the item loop of OrderViewSet.create on the state `acc`
\* ([err, products, items, total_amount]) of the loop
process_item(acc, item_data) ==
    LET product_id == item_data.product_id
        quantity == item_data.quantity
    IN  IF product_id = 0
        THEN [acc EXCEPT !.err = "ProductIdRequired"]
        ELSE IF product_id \notin DOMAIN acc.products
        THEN [acc EXCEPT !.err = "ProductNotFound"]
        ELSE LET product == acc.products[product_id]
             IN  IF product.stock_quantity < quantity
                 THEN [acc EXCEPT !.err = "InsufficientStock"]
                 ELSE LET unit_price == product.price
                          item_total == unit_price * quantity
                          saved == [acc.products EXCEPT
                                      ![product_id].stock_quantity = @ - quantity]
                      IN  IF quantity < 0
                          \* the INSERT of the item violates the check of
                          \* PositiveIntegerField: except Exception
                          THEN [acc EXCEPT !.products = saved, !.err = "ItemError"]
                          ELSE [err |-> "ok", products |-> saved,
                                items |-> Append(acc.items,
                                            [product |-> product_id, quantity |-> quantity,
                                             unit_price |-> unit_price,
                                             total_price |-> quantity * unit_price]),
                                total_amount |-> acc.total_amount + item_total]

RECURSIVE process_items(_, _, _)
process_items(items_data, k, acc) ==
    IF k > Len(items_data) \/ acc.err # "ok" THEN acc
    ELSE process_items(items_data, k + 1, process_item(acc, items_data[k]))

\* OrderViewSet.create: [result, order, saved, db]
OrderViewSet_create(d, items_data, data, day) ==
    IF items_data = <<>>
    THEN [result |-> "EmptyOrder", order |-> 0, saved |-> {}, db |-> d]
    ELSE IF ~data.shipping_address
    THEN [result |-> "ValidationError", order |-> 0, saved |-> {}, db |-> d]
    ELSE LET c == OrderSerializer_create(d, data.status)
             id == c.id
             loop == process_items(items_data, 1,
                        [err |-> "ok", products |-> d.products, items |-> <<>>,
                         total_amount |-> 0])
         IN  IF ~c.ok
             THEN [result |-> "UnexpectedError", order |-> 0, saved |-> {}, db |-> c.db]
             ELSE IF loop.err # "ok"
             THEN [result |-> loop.err, order |-> id, saved |-> {},
                   db |-> Order_delete([c.db EXCEPT !.products = loop.products], id)]
             ELSE LET s == Order_save([c.db EXCEPT !.products = loop.products,
                                                  !.items[id] = loop.items],
                                      id,
                                      [c.db.orders[id] EXCEPT !.total_amount = loop.total_amount],
                                      day)
                  IN  [result |-> IF s.ok THEN "ok" ELSE "UnexpectedError",
                       order |-> id, saved |-> {id}, db |-> s.db]

\* ------------------------------------------------------- other order requests
\* mark_delivered without the test of the current status
mark_delivered_unguarded(d, id, day) ==
    LET s == Order_save(d, id, [d.orders[id] EXCEPT !.status = DELIVERED], day)
    IN  [result |-> IF s.ok THEN "ok" ELSE "UnexpectedError",
         order |-> id, saved |-> {id}, db |-> s.db]

\* mark_delivered that also records a Delivered event for the order
mark_delivered_with_event(d, id, day) ==
    IF d.orders[id].status = DELIVERED
    THEN [result |-> "AlreadyDelivered", order |-> id, saved |-> {}, db |-> d]
    ELSE LET s == Order_save([d EXCEPT !.deliveries[id] = Append(@, [status |-> DELIVERED])],
                             id, [d.orders[id] EXCEPT !.status = DELIVERED], day)
         IN  [result |-> IF s.ok THEN "ok" ELSE "UnexpectedError",
              order |-> id, saved |-> {id}, db |-> s.db]

\* OrderViewSet.mark_delivered
OrderViewSet_mark_delivered(d, id, day) ==
    IF d.orders[id].status = DELIVERED
    THEN [result |-> "AlreadyDelivered", order |-> id, saved |-> {}, db |-> d]
    ELSE LET s == Order_save(d, id, [d.orders[id] EXCEPT !.status = DELIVERED], day)
         IN  [result |-> IF s.ok THEN "ok" ELSE "UnexpectedError",
              order |-> id, saved |-> {id}, db |-> s.db]

\* OrderViewSet_update that refuses to leave Delivered or Cancelled
OrderViewSet_update_terminal_kept(d, id, status, day) ==
    IF d.orders[id].status \in {DELIVERED, CANCELLED} /\ status # d.orders[id].status
    THEN [result |-> "ValidationError", order |-> id, saved |-> {}, db |-> d]
    ELSE LET s == Order_save(d, id, [d.orders[id] EXCEPT !.status = status], day)
         IN  [result |-> IF s.ok THEN "ok" ELSE "UnexpectedError",
              order |-> id, saved |-> {id}, db |-> s.db]

\* OrderViewSet.update / partial_update with a status: serializer.save()
OrderViewSet_update(d, id, status, day) ==
    LET s == Order_save(d, id, [d.orders[id] EXCEPT !.status = status], day)
    IN  [result |-> IF s.ok THEN "ok" ELSE "UnexpectedError",
         order |-> id, saved |-> {id}, db |-> s.db]

\* OrderViewSet.destroy
OrderViewSet_destroy(d, id) ==
    IF Order_delete_allowed(d, id)
    THEN [result |-> "ok", order |-> id, saved |-> {}, db |-> Order_delete(d, id)]
    ELSE [result |-> "ProtectedError", order |-> id, saved |-> {}, db |-> d]

\* handle_delivery_status_update without the test of `created`
delivery_status_update_always(d, id, status, created, day) ==
    IF d.orders[id].status # status
    THEN LET s == Order_save(d, id, [d.orders[id] EXCEPT !.status = status], day)
         IN  [result |-> IF s.ok THEN "ok" ELSE "UnexpectedError",
              order |-> id, saved |-> {id}, db |-> s.db]
    ELSE [result |-> "ok", order |-> id, saved |-> {}, db |-> d]

\* post_save of DeliveryStatus, after the INSERT of the event
handle_delivery_status_update(d, id, status, created, day) ==
    IF created /\ d.orders[id].status # status
    THEN LET s == Order_save(d, id, [d.orders[id] EXCEPT !.status = status], day)
         IN  [result |-> IF s.ok THEN "ok" ELSE "UnexpectedError",
              order |-> id, saved |-> {id}, db |-> s.db]
    ELSE [result |-> "ok", order |-> id, saved |-> {}, db |-> d]

\* OrderViewSet.add_delivery_status / DeliveryStatusViewSet.create
OrderViewSet_add_delivery_status(d, id, status, day) ==
    handle_delivery_status_update(
        [d EXCEPT !.deliveries[id] = Append(@, [status |-> status])], id, status, TRUE, day)

\* DeliveryStatusViewSet.update (PUT /delivery-status/{pk}/) of the k-th event
\* of the order: the row is updated, post_save has created = False
DeliveryStatusViewSet_update(d, id, k, status, day) ==
    handle_delivery_status_update(
        [d EXCEPT !.deliveries[id][k].status = status], id, status, FALSE, day)

\* ------------------------------------------------------------ billing requests
RECURSIVE total_paid(_, _)
\* sum(payment.amount for payment in invoice.payments.all())
total_paid(rows, k) == IF k = 0 THEN 0 ELSE total_paid(rows, k - 1) + rows[k].amount

\* PaymentStatus with `>` in place of `>=`
PaymentStatus_strict(invoice, paid) ==
    IF paid * Fine > invoice.total_amount THEN INV_PAID
    ELSE IF paid > 0 THEN INV_PARTIALLY_PAID
    ELSE invoice.status

\* the status Payment.save derives for the invoice instance
PaymentStatus(invoice, paid) ==
    IF paid * Fine >= invoice.total_amount THEN INV_PAID
    ELSE IF paid > 0 THEN INV_PARTIALLY_PAID
    ELSE invoice.status

\* Payment.save that keeps the outstanding balance in the invoice's total_amount
Payment_save_outstanding(d, id, invoice, amount) ==
    LET d1 == [d EXCEPT !.payments[id] = Append(@, [amount |-> amount])]
        paid == total_paid(d1.payments[id], Len(d1.payments[id]))
        inv == [invoice EXCEPT !.status = PaymentStatus(invoice, paid),
                               !.total_amount = @ - amount * Fine]
    IN  [d1 EXCEPT !.invoices[id] = InvoiceRow(Invoice_save(inv))]

\* Payment.save for a new payment of `invoice` (the instance the payment holds)
Payment_save(d, id, invoice, amount) ==
    LET d1 == [d EXCEPT !.payments[id] = Append(@, [amount |-> amount])]
        paid == total_paid(d1.payments[id], Len(d1.payments[id]))
        inv == [invoice EXCEPT !.status = PaymentStatus(invoice, paid)]
    IN  [d1 EXCEPT !.invoices[id] = InvoiceRow(Invoice_save(inv))]

\* InvoiceViewSet.add_payment / PaymentViewSet.create
InvoiceViewSet_add_payment(d, id, amount) ==
    IF amount < 1
    THEN [result |-> "ValidationError", invoice |-> id, db |-> d]
    ELSE [result |-> "ok", invoice |-> id,
          db |-> Payment_save(d, id, InvoiceInstance(d.invoices[id]), amount)]

\* Payment.save for the k-th payment of the invoice, with a new amount: the
\* row is updated and the status of the invoice derived again
Payment_save_existing(d, id, k, invoice, amount) ==
    LET d1 == [d EXCEPT !.payments[id][k].amount = amount]
        paid == total_paid(d1.payments[id], Len(d1.payments[id]))
        inv == [invoice EXCEPT !.status = PaymentStatus(invoice, paid)]
    IN  [d1 EXCEPT !.invoices[id] = InvoiceRow(Invoice_save(inv))]

\* PaymentViewSet.update (PUT /payments/{pk}/) of the k-th payment of invoice id
PaymentViewSet_update(d, id, k, amount) ==
    IF amount < 1
    THEN [result |-> "ValidationError", invoice |-> id, db |-> d]
    ELSE [result |-> "ok", invoice |-> id,
          db |-> Payment_save_existing(d, id, k, InvoiceInstance(d.invoices[id]), amount)]

\* PaymentViewSet.destroy (DELETE /payments/{pk}/): the row is deleted, the
\* invoice is not saved
PaymentViewSet_destroy(d, id, k) ==
    [result |-> "ok", invoice |-> id,
     db |-> [d EXCEPT !.payments[id] = SubSeq(@, 1, k - 1) \o SubSeq(@, k + 1, Len(@))]]

\* INSERT of a credit note: credit_note_number is unique
CreditNoteInsertAllowed(table, number) ==
    \A i \in DOMAIN table : table[i].credit_note_number # number

\* CreditNoteSerializer.create followed by the INSERT
CreditNoteSerializer_create(d, invoice, amount) ==
    LET new_number == CreditNoteNumber(d.creditNotes)
        id == d.creditNoteSeq + 1
        d1 == Issue(d, "CN", new_number)
    IN  IF CreditNoteInsertAllowed(d.creditNotes, new_number)
        THEN [ok |-> TRUE,
              db |-> [d1 EXCEPT !.creditNotes = Insert(@, id,
                                      [credit_note_number |-> new_number,
                                       invoice |-> invoice, amount |-> amount]),
                                !.creditNoteSeq = id]]
        ELSE [ok |-> FALSE, db |-> d1]

\* add_credit_note that also takes the amount off the invoice's total
add_credit_note_reducing_total(d, id, amount) ==
    IF amount < 1
    THEN [result |-> "ValidationError", invoice |-> id, db |-> d]
    ELSE LET c == CreditNoteSerializer_create(d, id, amount)
         IN  [result |-> IF c.ok THEN "ok" ELSE "UnexpectedError", invoice |-> id,
              db |-> IF c.ok
                     THEN [c.db EXCEPT !.invoices[id].total_amount = @ - amount]
                     ELSE c.db]

\* InvoiceViewSet.add_credit_note / CreditNoteViewSet.create
InvoiceViewSet_add_credit_note(d, id, amount) ==
    IF amount < 1
    THEN [result |-> "ValidationError", invoice |-> id, db |-> d]
    ELSE LET c == CreditNoteSerializer_create(d, id, amount)
         IN  [result |-> IF c.ok THEN "ok" ELSE "UnexpectedError", invoice |-> id,
              db |-> c.db]

\* InvoiceSerializer.create followed by Invoice.save and the INSERT
InvoiceSerializer_create(d, data) ==
    LET new_number == InvoiceNumber(d.invoices)
    IN  Invoice_create(Issue(d, "INV", new_number),
                       [invoice_number |-> new_number, order |-> data.order,
                        status |-> data.status, issue_date |-> data.issue_date,
                        due_date |-> data.due_date, subtotal |-> data.subtotal * Fine,
                        tax_rate |-> DefaultTaxRate, tax_amount |-> None,
                        total_amount |-> None],
                       "api")

\* InvoiceViewSet.create: the serializer rejects an order that has an invoice
\* (the unique validator of the one-to-one field)
InvoiceViewSet_create(d, data) ==
    IF data.order \notin DOMAIN d.orders \/ InvoiceOf(d.invoices, data.order) # {}
    THEN [result |-> "ValidationError", invoice |-> 0, db |-> d]
    ELSE LET c == InvoiceSerializer_create(d, data)
         IN  [result |-> IF c.ok THEN "ok" ELSE "UnexpectedError",
              invoice |-> c.db.invoiceSeq, db |-> c.db]

\* InvoiceViewSet.destroy: payments and credit notes are PROTECT
InvoiceViewSet_destroy(d, id) ==
    IF d.payments[id] # <<>> \/ \E c \in DOMAIN d.creditNotes : d.creditNotes[c].invoice = id
    THEN [result |-> "ProtectedError", invoice |-> id, db |-> d]
    ELSE [result |-> "ok", invoice |-> id,
          db |-> [d EXCEPT !.invoices = Delete(@, id), !.payments = Delete(@, id)]]

\* ---------------------------------------------------------------- requests
Quantities == {0 - 1, 0, 1, 2}
\* an item without product id, one of an unknown product, and every quantity of
\* every product
ItemData == {[product_id |-> 0, quantity |-> 1], [product_id |-> UnknownProduct, quantity |-> 1]}
            \cup [product_id : ProductIds, quantity : Quantities]
ItemLists == UNION {[1..n -> ItemData] : n \in 0..MaxItems}
CreateStatuses == {PENDING, DELIVERED}
UpdateStatuses == {PENDING, DELIVERED, CANCELLED}
EventStatuses == {"IT", DELIVERED}
InvoiceCreateStatuses == {"DR", "CA"}
Subtotals == {0, 7}
Draft == {"DR"}
OneSubtotal == {7}
PaymentAmounts == {0, 2, 5}
NoteAmounts == {3}
SimpleLists == {<<[product_id |-> 1, quantity |-> q]>> : q \in {1, 2}}

Procs == {1, 2}
\* a worker that handles no request, after n requests
Worker(n) == [pc |-> "idle", n |-> n, op |-> "none", id |-> 0, inst |-> <<>>,
              number |-> <<>>, req |-> <<>>, k |-> 0, product |-> <<>>, total |-> 0,
              result |-> "ok"]
Idle == Worker(0)

Event(op, order, invoice, result, saved) ==
    [op |-> op, order |-> order, invoice |-> invoice, result |-> result, saved |-> saved]

StockCapped(d) == \A p \in ProductIds : d.products[p].stock_quantity <= MaxStock

\* the database after the migrations, with the catalogue loaded
InitDB ==
    [products |-> [p \in ProductIds |-> IF p = 1 THEN [price |-> 3, stock_quantity |-> 2]
                                        ELSE [price |-> 5, stock_quantity |-> 1]],
     orders |-> EmptyTable, orderSeq |-> 0, items |-> EmptyTable,
     deliveries |-> EmptyTable, invoices |-> EmptyTable, invoiceSeq |-> 0,
     payments |-> EmptyTable, creditNotes |-> EmptyTable, creditNoteSeq |-> 0,
     purchaseOrders |-> EmptyTable, purchaseOrderSeq |-> 0,
     stockMovements |-> <<>>,
     issued |-> [k \in {"ORD", "INV", "CN", "PO"} |-> <<>>],
     origin |-> EmptyTable]

Holds(d) ==
    /\ products = d.products
    /\ orders = d.orders
    /\ orderSeq = d.orderSeq
    /\ items = d.items
    /\ deliveries = d.deliveries
    /\ invoices = d.invoices
    /\ invoiceSeq = d.invoiceSeq
    /\ payments = d.payments
    /\ creditNotes = d.creditNotes
    /\ creditNoteSeq = d.creditNoteSeq
    /\ purchaseOrders = d.purchaseOrders
    /\ purchaseOrderSeq = d.purchaseOrderSeq
    /\ stockMovements = d.stockMovements
    /\ issued = d.issued
    /\ origin = d.origin

Init ==
    /\ Holds(InitDB)
    /\ today = 0
    /\ procs = [p \in Procs |-> Idle]
    /\ ev = Event("none", 0, 0, "ok", {})

\* POST /orders/ with the request drawn from the given sets
OrderCreateFrom(lists, statuses, addresses) ==
    /\ orderSeq < MaxOrders
    /\ \E items_data \in lists, status \in statuses, address \in addresses :
         LET r == OrderViewSet_create(DB, items_data,
                                      [status |-> status, shipping_address |-> address],
                                      today)
         IN  /\ StockCapped(r.db)
             /\ r.db.invoiceSeq <= MaxInvoices
             /\ Commit(r.db)
             /\ ev' = Event("create", r.order, 0, r.result, r.saved)
    /\ UNCHANGED <<today, procs>>

\* POST /orders/, any request
OrderCreate == OrderCreateFrom(ItemLists, CreateStatuses, BOOLEAN)

\* POST /orders/, a well-formed request for one product
PlaceOrder == OrderCreateFrom(SimpleLists, CreateStatuses, {TRUE})

\* PUT/PATCH /orders/{id}/
OrderUpdate ==
    /\ \E id \in DOMAIN orders, status \in UpdateStatuses :
         LET r == OrderViewSet_update(DB, id, status, today)
         IN  /\ r.db.invoiceSeq <= MaxInvoices
             /\ Commit(r.db)
             /\ ev' = Event("update", r.order, 0, r.result, r.saved)
    /\ UNCHANGED <<today, procs>>

\* DELETE /orders/{id}/
OrderDestroy ==
    /\ \E id \in DOMAIN orders :
         LET r == OrderViewSet_destroy(DB, id)
         IN  /\ Commit(r.db)
             /\ ev' = Event("destroy", r.order, 0, r.result, r.saved)
    /\ UNCHANGED <<today, procs>>

\* POST /orders/{id}/mark_delivered/
MarkDelivered ==
    /\ \E id \in DOMAIN orders :
         LET r == OrderViewSet_mark_delivered(DB, id, today)
         IN  /\ r.db.invoiceSeq <= MaxInvoices
             /\ Commit(r.db)
             /\ ev' = Event("mark_delivered", r.order, 0, r.result, r.saved)
    /\ UNCHANGED <<today, procs>>

\* POST /orders/{id}/add_delivery_status/
AddDeliveryStatus ==
    /\ \E id \in DOMAIN orders, status \in EventStatuses :
         /\ Len(deliveries[id]) < MaxEvents
         /\ LET r == OrderViewSet_add_delivery_status(DB, id, status, today)
            IN  /\ r.db.invoiceSeq <= MaxInvoices
                /\ Commit(r.db)
                /\ ev' = Event("add_delivery_status", r.order, 0, r.result, r.saved)
    /\ UNCHANGED <<today, procs>>

\* POST /invoices/ with the request drawn from the given sets
InvoiceCreateFrom(statuses, subtotals) ==
    /\ invoiceSeq < MaxInvoices
    /\ \E order \in DOMAIN orders, status \in statuses, subtotal \in subtotals :
         LET r == InvoiceViewSet_create(DB, [order |-> order, status |-> status,
                                             issue_date |-> today, due_date |-> today,
                                             subtotal |-> subtotal])
         IN  /\ Commit(r.db)
             /\ ev' = Event("invoice_create", order, r.invoice, r.result, {})
    /\ UNCHANGED <<today, procs>>

\* POST /invoices/, any status and subtotal
InvoiceCreate == InvoiceCreateFrom(InvoiceCreateStatuses, Subtotals)

\* POST /invoices/, a draft invoice
InvoiceDraft == InvoiceCreateFrom(Draft, OneSubtotal)

\* DELETE /invoices/{id}/
InvoiceDestroy ==
    /\ \E id \in DOMAIN invoices :
         LET r == InvoiceViewSet_destroy(DB, id)
         IN  /\ Commit(r.db)
             /\ ev' = Event("invoice_destroy", 0, r.invoice, r.result, {})
    /\ UNCHANGED <<today, procs>>

\* POST /invoices/{id}/add_payment/
AddPayment ==
    /\ \E id \in DOMAIN invoices, amount \in PaymentAmounts :
         /\ Len(payments[id]) < MaxPayments
         /\ LET r == InvoiceViewSet_add_payment(DB, id, amount)
            IN  /\ Commit(r.db)
                /\ ev' = Event("add_payment", 0, r.invoice, r.result, {})
    /\ UNCHANGED <<today, procs>>

\* POST /invoices/{id}/add_credit_note/
AddCreditNote ==
    /\ creditNoteSeq < MaxNotes
    /\ \E id \in DOMAIN invoices, amount \in NoteAmounts :
         LET r == InvoiceViewSet_add_credit_note(DB, id, amount)
         IN  /\ Commit(r.db)
             /\ ev' = Event("add_credit_note", 0, r.invoice, r.result, {})
    /\ UNCHANGED <<today, procs>>

\* the date changes
Tick ==
    /\ today < MaxDay
    /\ today' = today + 1
    /\ UNCHANGED <<dbvars, procs, ev>>

\* the order aggregate
Next ==
    \/ OrderCreate
    \/ OrderDestroy

Spec == Init /\ [][Next]_vars

\* the delivery / invoice lifecycle
NextLifecycle ==
    \/ PlaceOrder
    \/ OrderUpdate
    \/ OrderDestroy
    \/ MarkDelivered
    \/ AddDeliveryStatus
    \/ InvoiceDraft
    \/ InvoiceDestroy

SpecLifecycle == Init /\ [][NextLifecycle]_vars

\* the payment ledger
NextBilling ==
    \/ PlaceOrder
    \/ MarkDelivered
    \/ InvoiceCreate
    \/ AddPayment
    \/ AddCreditNote
    \/ Tick

SpecBilling == Init /\ [][NextBilling]_vars

\* ------------------------------------------------- concurrent requests
\* Two workers handle requests at the same time; every step is one database
\* statement (autocommit), made on the instance the worker read earlier.

\* the database the concurrent workers start from: order 1 placed and
\* delivered (so it has an invoice), order 2 placed
ConcDB ==
    LET item(p) == <<[product_id |-> p, quantity |-> 1]>>
        data == [status |-> PENDING, shipping_address |-> TRUE]
        d1 == OrderViewSet_create(InitDB, item(1), data, 0).db
        d2 == OrderViewSet_mark_delivered(d1, 1, 0).db
    IN  OrderViewSet_create(d2, item(2), data, 0).db

InitConc ==
    /\ Holds(ConcDB)
    /\ today = 0
    /\ procs = [p \in Procs |-> Idle]
    /\ ev = Event("none", 0, 0, "ok", {})

ConcUpdateStatuses == {PENDING, DELIVERED}
ConcEventStatuses == {DELIVERED}
ConcLists == {<<[product_id |-> 1, quantity |-> 1]>>}

Receives(p) == procs[p].pc = "idle" /\ procs[p].n < MaxRequests
At(p, pc) == procs[p].pc = pc

\* the worker goes on with the request
Goto(p, w) == procs' = [procs EXCEPT ![p] = w]
\* the worker answers the request
Respond(p, result) ==
    /\ procs' = [procs EXCEPT ![p] = Worker(procs[p].n)]
    /\ ev' = Event(procs[p].op, procs[p].id, 0, result, {})
RespondAs(p, op, id, result) ==
    /\ procs' = [procs EXCEPT ![p] = Worker(procs[p].n + 1)]
    /\ ev' = Event(op, id, 0, result, {})
Begin(p, op, id, pc) == [Worker(procs[p].n + 1) EXCEPT !.op = op, !.id = id, !.pc = pc]

\* after order.save(): post_save runs handle_order_status_change on the instance
AfterSave(p, inst) ==
    IF inst.status = DELIVERED
    THEN Goto(p, [procs[p] EXCEPT !.pc = "sig_exists", !.inst = inst]) /\ UNCHANGED ev
    ELSE Respond(p, "ok")

\* mark_delivered: get_object, the test of the status
ConcMarkDelivered(p) ==
    /\ Receives(p)
    /\ \E id \in DOMAIN orders :
         LET order == orders[id]
         IN  IF order.status = DELIVERED
             THEN RespondAs(p, "mark_delivered", id, "AlreadyDelivered")
             ELSE /\ Goto(p, [Begin(p, "mark_delivered", id, "save")
                                 EXCEPT !.inst = [order EXCEPT !.status = DELIVERED]])
                  /\ UNCHANGED ev
    /\ UNCHANGED <<dbvars, today>>

\* update: get_object, the serializer sets the status on the instance
ConcUpdate(p) ==
    /\ Receives(p)
    /\ \E id \in DOMAIN orders, status \in ConcUpdateStatuses :
         Goto(p, [Begin(p, "update", id, "save")
                     EXCEPT !.inst = [orders[id] EXCEPT !.status = status]])
    /\ UNCHANGED <<dbvars, today, ev>>

\* add_delivery_status: get_object
ConcAddDeliveryStatus(p) ==
    /\ Receives(p)
    /\ \E id \in DOMAIN orders, status \in ConcEventStatuses :
         Goto(p, [Begin(p, "add_delivery_status", id, "ev_insert")
                     EXCEPT !.inst = orders[id], !.req = [status |-> status]])
    /\ UNCHANGED <<dbvars, today, ev>>

\* order.save(): UPDATE of the row with the fields of the instance; when the
\* row is gone the save INSERTs it again and post_save has created = True
StepSave(p) ==
    /\ At(p, "save")
    /\ IF procs[p].id \in DOMAIN orders
       THEN /\ orders' = [orders EXCEPT ![procs[p].id] = procs[p].inst]
            /\ AfterSave(p, procs[p].inst)
            /\ UNCHANGED <<items, deliveries>>
       ELSE /\ orders' = Insert(orders, procs[p].id, procs[p].inst)
            /\ items' = Insert(items, procs[p].id, <<>>)
            /\ deliveries' = Insert(deliveries, procs[p].id, <<>>)
            /\ Respond(p, "ok")
    /\ UNCHANGED <<products, orderSeq, invoices, invoiceSeq, payments,
                   creditNotes, creditNoteSeq, purchaseOrders, purchaseOrderSeq, stockMovements, issued,
                   origin, today>>

\* INSERT of the delivery status, then handle_delivery_status_update
StepEventInsert(p) ==
    /\ At(p, "ev_insert")
    /\ IF procs[p].id \notin DOMAIN orders
       THEN Respond(p, "UnexpectedError") /\ UNCHANGED deliveries
       ELSE /\ deliveries' = [deliveries EXCEPT ![procs[p].id] = Append(@, procs[p].req)]
            /\ IF procs[p].inst.status # procs[p].req.status
               THEN /\ Goto(p, [procs[p] EXCEPT !.pc = "save_status",
                                                 !.inst.status = procs[p].req.status])
                    /\ UNCHANGED ev
               ELSE Respond(p, "ok")
    /\ UNCHANGED <<products, orders, orderSeq, items, invoices, invoiceSeq, payments,
                   creditNotes, creditNoteSeq, purchaseOrders, purchaseOrderSeq, stockMovements, issued,
                   origin, today>>

\* order.save(update_fields=['status'])
StepSaveStatus(p) ==
    /\ At(p, "save_status")
    /\ IF procs[p].id \in DOMAIN orders
       THEN /\ orders' = [orders EXCEPT ![procs[p].id].status = procs[p].inst.status]
            /\ AfterSave(p, procs[p].inst)
       ELSE Respond(p, "UnexpectedError") /\ UNCHANGED orders
    /\ UNCHANGED <<products, orderSeq, items, deliveries, invoices, invoiceSeq, payments,
                   creditNotes, creditNoteSeq, purchaseOrders, purchaseOrderSeq, stockMovements, issued,
                   origin, today>>

\* handle_order_status_change: Invoice.objects.filter(order=instance).exists()
StepSignalExists(p) ==
    /\ At(p, "sig_exists")
    /\ IF InvoiceOf(invoices, procs[p].id) = {}
       THEN Goto(p, [procs[p] EXCEPT !.pc = "sig_last"]) /\ UNCHANGED ev
       ELSE Respond(p, "ok")
    /\ UNCHANGED <<dbvars, today>>

\* handle_order_status_change: the last invoice and the new number
StepSignalNumber(p) ==
    /\ At(p, "sig_last")
    /\ LET invoice_number == SignalInvoiceNumber(invoices)
       IN  /\ Goto(p, [procs[p] EXCEPT !.pc = "sig_insert", !.number = invoice_number])
           /\ Commit(Issue(DB, "INV", invoice_number))
    /\ UNCHANGED <<today, ev>>

\* handle_order_status_change: Invoice.objects.create
StepSignalInsert(p) ==
    /\ At(p, "sig_insert")
    /\ LET c == Invoice_create(DB, SignalInvoice(procs[p].id, procs[p].inst,
                                                 procs[p].number, today), "signal")
       IN  /\ Commit(c.db)
           /\ Respond(p, IF c.ok THEN "ok" ELSE "UnexpectedError")
    /\ UNCHANGED today

\* POST /invoices/: the validation of the serializer
ConcInvoiceCreate(p) ==
    /\ Receives(p)
    /\ \E order \in DOMAIN orders :
         IF InvoiceOf(invoices, order) # {}
         THEN RespondAs(p, "invoice_create", order, "ValidationError")
         ELSE Goto(p, Begin(p, "invoice_create", order, "inv_last")) /\ UNCHANGED ev
    /\ UNCHANGED <<dbvars, today>>

\* InvoiceSerializer.create: the last invoice and the new number
StepInvoiceNumber(p) ==
    /\ At(p, "inv_last")
    /\ LET new_number == InvoiceNumber(invoices)
       IN  /\ Goto(p, [procs[p] EXCEPT !.pc = "inv_insert", !.number = new_number])
           /\ Commit(Issue(DB, "INV", new_number))
    /\ UNCHANGED <<today, ev>>

\* InvoiceSerializer.create: the INSERT
StepInvoiceInsert(p) ==
    /\ At(p, "inv_insert")
    /\ LET c == Invoice_create(DB, [invoice_number |-> procs[p].number,
                                    order |-> procs[p].id, status |-> "DR",
                                    issue_date |-> today, due_date |-> today,
                                    subtotal |-> 7 * Fine, tax_rate |-> DefaultTaxRate,
                                    tax_amount |-> None, total_amount |-> None], "api")
       IN  /\ Commit(c.db)
           /\ Respond(p, IF c.ok THEN "ok" ELSE "UnexpectedError")
    /\ UNCHANGED today

\* POST /orders/: validation, OrderSerializer.create reads the last order
ConcOrderCreate(p) ==
    /\ Receives(p)
    /\ \E items_data \in ConcLists, status \in CreateStatuses :
         LET new_number == OrderNumber(orders)
         IN  /\ Goto(p, [Begin(p, "create", 0, "c_insert")
                            EXCEPT !.number = new_number,
                                   !.req = [items |-> items_data, status |-> status]])
             /\ Commit(Issue(DB, "ORD", new_number))
    /\ UNCHANGED <<today, ev>>

\* OrderSerializer.create: the INSERT of the order
StepOrderInsert(p) ==
    /\ At(p, "c_insert")
    /\ IF OrderInsertAllowed(orders, procs[p].number)
       THEN LET id == orderSeq + 1
                row == [order_number |-> procs[p].number, status |-> procs[p].req.status,
                        total_amount |-> 0]
            IN  /\ orders' = Insert(orders, id, row)
                /\ orderSeq' = id
                /\ items' = Insert(items, id, <<>>)
                /\ deliveries' = Insert(deliveries, id, <<>>)
                /\ Goto(p, [procs[p] EXCEPT !.pc = "c_get", !.id = id, !.inst = row,
                                             !.k = 1])
                /\ UNCHANGED ev
       ELSE /\ Respond(p, "UnexpectedError")
            /\ UNCHANGED <<orders, orderSeq, items, deliveries>>
    /\ UNCHANGED <<products, invoices, invoiceSeq, payments, creditNotes, creditNoteSeq,
                   purchaseOrders, purchaseOrderSeq, stockMovements, issued, origin, today>>

\* the item loop: Product.objects.get and the test of the stock
StepItemGet(p) ==
    /\ At(p, "c_get")
    /\ LET item_data == procs[p].req.items[procs[p].k]
           product_id == item_data.product_id
           quantity == item_data.quantity
           fail(result) == [procs[p] EXCEPT !.pc = "c_delete", !.result = result]
       IN  IF product_id = 0 THEN Goto(p, fail("ProductIdRequired"))
           ELSE IF product_id \notin DOMAIN products THEN Goto(p, fail("ProductNotFound"))
           ELSE IF products[product_id].stock_quantity < quantity
           THEN Goto(p, fail("InsufficientStock"))
           ELSE Goto(p, [procs[p] EXCEPT
                            !.pc = "c_psave",
                            !.product = [products[product_id] EXCEPT
                                            !.stock_quantity = @ - quantity]])
    /\ UNCHANGED <<dbvars, today, ev>>

\* the item loop: product.save()
StepProductSave(p) ==
    /\ At(p, "c_psave")
    /\ products' = [products EXCEPT
                       ![procs[p].req.items[procs[p].k].product_id] = procs[p].product]
    /\ Goto(p, [procs[p] EXCEPT !.pc = "c_item"])
    /\ UNCHANGED <<orders, orderSeq, items, deliveries, invoices, invoiceSeq, payments,
                   creditNotes, creditNoteSeq, purchaseOrders, purchaseOrderSeq, stockMovements, issued,
                   origin, today, ev>>

\* the item loop: OrderItem.objects.create
StepItemInsert(p) ==
    /\ At(p, "c_item")
    /\ LET item_data == procs[p].req.items[procs[p].k]
           quantity == item_data.quantity
           unit_price == procs[p].product.price
           item_total == unit_price * quantity
           k == procs[p].k + 1
       IN  IF quantity < 0
           THEN /\ Goto(p, [procs[p] EXCEPT !.pc = "c_delete", !.result = "ItemError"])
                /\ UNCHANGED items
           ELSE /\ items' = [items EXCEPT ![procs[p].id] =
                                Append(@, [product |-> item_data.product_id,
                                           quantity |-> quantity, unit_price |-> unit_price,
                                           total_price |-> quantity * unit_price])]
                /\ Goto(p, [procs[p] EXCEPT
                               !.pc = IF k > Len(procs[p].req.items) THEN "c_final" ELSE "c_get",
                               !.k = k, !.total = @ + item_total])
    /\ UNCHANGED <<products, orders, orderSeq, deliveries, invoices, invoiceSeq, payments,
                   creditNotes, creditNoteSeq, purchaseOrders, purchaseOrderSeq, stockMovements, issued,
                   origin, today, ev>>

\* order.total_amount = total_amount; order.save()
StepOrderFinal(p) ==
    /\ At(p, "c_final")
    /\ LET inst == [procs[p].inst EXCEPT !.total_amount = procs[p].total]
       IN  /\ orders' = [orders EXCEPT ![procs[p].id] = inst]
           /\ AfterSave(p, inst)
    /\ UNCHANGED <<products, orderSeq, items, deliveries, invoices, invoiceSeq, payments,
                   creditNotes, creditNoteSeq, purchaseOrders, purchaseOrderSeq, stockMovements, issued,
                   origin, today>>

\* order.delete() after a failed item
StepOrderDelete(p) ==
    /\ At(p, "c_delete")
    /\ IF Order_delete_allowed(DB, procs[p].id)
       THEN Commit(Order_delete(DB, procs[p].id)) /\ Respond(p, procs[p].result)
       ELSE UNCHANGED dbvars /\ Respond(p, "UnexpectedError")
    /\ UNCHANGED today

\* add_credit_note: get_object
ConcAddCreditNote(p) ==
    /\ Receives(p)
    /\ \E id \in DOMAIN invoices, amount \in NoteAmounts :
         Goto(p, [Begin(p, "add_credit_note", id, "cn_last")
                     EXCEPT !.req = [amount |-> amount]])
    /\ UNCHANGED <<dbvars, today, ev>>

\* CreditNoteSerializer.create: the last credit note and the new number
StepCreditNoteNumber(p) ==
    /\ At(p, "cn_last")
    /\ LET new_number == CreditNoteNumber(creditNotes)
       IN  /\ Goto(p, [procs[p] EXCEPT !.pc = "cn_insert", !.number = new_number])
           /\ Commit(Issue(DB, "CN", new_number))
    /\ UNCHANGED <<today, ev>>

\* CreditNoteSerializer.create: the INSERT
StepCreditNoteInsert(p) ==
    /\ At(p, "cn_insert")
    /\ IF CreditNoteInsertAllowed(creditNotes, procs[p].number)
       THEN /\ creditNotes' = Insert(creditNotes, creditNoteSeq + 1,
                                     [credit_note_number |-> procs[p].number,
                                      invoice |-> procs[p].id,
                                      amount |-> procs[p].req.amount])
            /\ creditNoteSeq' = creditNoteSeq + 1
            /\ Respond(p, "ok")
       ELSE /\ Respond(p, "UnexpectedError")
            /\ UNCHANGED <<creditNotes, creditNoteSeq>>
    /\ UNCHANGED <<products, orders, orderSeq, items, deliveries, invoices, invoiceSeq,
                   payments, purchaseOrders, purchaseOrderSeq, stockMovements, issued, origin, today>>

\* INSERT of a purchase order: order_number is unique
PurchaseOrderInsertAllowed(table, number) ==
    \A i \in DOMAIN table : table[i].order_number # number

\* POST /purchase-orders/: PurchaseOrderSerializer.create reads the last one
ConcPurchaseOrderCreate(p) ==
    /\ Receives(p)
    /\ LET new_number == PurchaseOrderNumber(purchaseOrders)
       IN  /\ Goto(p, [Begin(p, "po_create", 0, "po_insert") EXCEPT !.number = new_number])
           /\ Commit(Issue(DB, "PO", new_number))
    /\ UNCHANGED <<today, ev>>

\* PurchaseOrderSerializer.create: the INSERT
StepPurchaseOrderInsert(p) ==
    /\ At(p, "po_insert")
    /\ IF PurchaseOrderInsertAllowed(purchaseOrders, procs[p].number)
       THEN /\ purchaseOrders' = Insert(purchaseOrders, purchaseOrderSeq + 1,
                                        [order_number |-> procs[p].number])
            /\ purchaseOrderSeq' = purchaseOrderSeq + 1
            /\ Respond(p, "ok")
       ELSE /\ Respond(p, "UnexpectedError")
            /\ UNCHANGED <<purchaseOrders, purchaseOrderSeq, stockMovements>>
    /\ UNCHANGED <<products, orders, orderSeq, items, deliveries, invoices, invoiceSeq,
                   payments, creditNotes, creditNoteSeq, stockMovements, issued, origin,
                   today>>

NextConc ==
    \E p \in Procs :
        \/ ConcMarkDelivered(p)
        \/ ConcUpdate(p)
        \/ ConcAddDeliveryStatus(p)
        \/ StepSave(p)
        \/ StepEventInsert(p)
        \/ StepSaveStatus(p)
        \/ StepSignalExists(p)
        \/ StepSignalNumber(p)
        \/ StepSignalInsert(p)
        \/ ConcInvoiceCreate(p)
        \/ StepInvoiceNumber(p)
        \/ StepInvoiceInsert(p)
        \/ ConcOrderCreate(p)
        \/ StepOrderInsert(p)
        \/ StepItemGet(p)
        \/ StepProductSave(p)
        \/ StepItemInsert(p)
        \/ StepOrderFinal(p)
        \/ StepOrderDelete(p)
        \/ ConcAddCreditNote(p)
        \/ StepCreditNoteNumber(p)
        \/ StepCreditNoteInsert(p)
        \/ ConcPurchaseOrderCreate(p)
        \/ StepPurchaseOrderInsert(p)

SpecConc == InitConc /\ [][NextConc]_vars

\* ------------------------------------------------------------- numbering
\* PurchaseOrderSerializer.create followed by the INSERT
PurchaseOrderSerializer_create(d) ==
    LET new_number == PurchaseOrderNumber(d.purchaseOrders)
        id == d.purchaseOrderSeq + 1
        d1 == Issue(d, "PO", new_number)
    IN  IF PurchaseOrderInsertAllowed(d.purchaseOrders, new_number)
        THEN [ok |-> TRUE,
              db |-> [d1 EXCEPT !.purchaseOrders = Insert(@, id, [order_number |-> new_number]),
                                !.purchaseOrderSeq = id]]
        ELSE [ok |-> FALSE, db |-> d1]

\* POST /purchase-orders/
PurchaseOrderCreate ==
    /\ purchaseOrderSeq < MaxOrders
    /\ LET c == PurchaseOrderSerializer_create(DB)
       IN  /\ Commit(c.db)
           /\ ev' = Event("po_create", 0, 0, IF c.ok THEN "ok" ELSE "UnexpectedError", {})
    /\ UNCHANGED <<today, procs>>

\* POST /invoices/{id}/add_credit_note/ on a database that holds a credit note
NextCreditNote ==
    /\ creditNoteSeq < MaxNotes + 1
    /\ \E id \in DOMAIN invoices, amount \in NoteAmounts :
         LET r == InvoiceViewSet_add_credit_note(DB, id, amount)
         IN  /\ Commit(r.db)
             /\ ev' = Event("add_credit_note", 0, r.invoice, r.result, {})
    /\ UNCHANGED <<today, procs>>

\* the numeric suffixes of the newest record the generators are run on
\* (0: no record yet)
SeedSuffixes == {0, 1, 9, 99, 99999, 999998, 999999}

\* a database whose newest order, invoice, credit note and purchase order
\* carry the suffix n: the order is delivered and invoiced
SeedDB(n) ==
    LET number(prefix) == prefix \o zfill(str(n), NumberWidth)
        order == [order_number |-> number(<<"O", "R", "D">>), status |-> DELIVERED,
                  total_amount |-> 3]
        invoice == InvoiceRow(Invoice_save(
                       SignalInvoice(1, order, number(<<"I", "N", "V">>), 0)))
    IN  IF n = 0 THEN InitDB
        ELSE [InitDB EXCEPT
                !.products[1].stock_quantity = @ - 1,
                !.orders = Insert(@, 1, order), !.orderSeq = 1,
                !.items = Insert(@, 1, <<[product |-> 1, quantity |-> 1, unit_price |-> 3,
                                          total_price |-> 3]>>),
                !.deliveries = Insert(@, 1, <<>>),
                !.invoices = Insert(@, 1, invoice), !.invoiceSeq = 1,
                !.payments = Insert(@, 1, <<>>),
                !.origin = Insert(@, 1, [by |-> "signal", order_status |-> DELIVERED]),
                !.creditNotes = Insert(@, 1, [credit_note_number |-> number(<<"C", "N">>),
                                              invoice |-> 1, amount |-> 3]),
                !.creditNoteSeq = 1,
                !.purchaseOrders = Insert(@, 1, [order_number |-> number(<<"P", "O">>)]),
                !.purchaseOrderSeq = 1]

InitNumbers ==
    /\ \E n \in SeedSuffixes : Holds(SeedDB(n))
    /\ today = 0
    /\ procs = [p \in Procs |-> Idle]
    /\ ev = Event("none", 0, 0, "ok", {})

\* every creation that draws a number
NextNumbers ==
    \/ PlaceOrder
    \/ OrderDestroy
    \/ MarkDelivered
    \/ InvoiceDraft
    \/ NextCreditNote
    \/ PurchaseOrderCreate

SpecNumbers == InitNumbers /\ [][NextNumbers]_vars

\* order creations and deletions, on a database whose newest order carries one
\* of the seeded suffixes
SpecOrderNumbers == InitNumbers /\ [][Next]_vars

\* ------------------------------------------------------------- order items
\* OrderItem.save: total_price is recomputed from quantity and unit_price
OrderItem_save(item) == [item EXCEPT !.total_price = item.quantity * item.unit_price]

\* OrderItemSerializer.is_valid: the order and the product exist, quantity
\* passes MinValueValidator(1)
OrderItemSerializer_is_valid(d, data) ==
    /\ data.order \in DOMAIN d.orders
    /\ data.product \in DOMAIN d.products
    /\ data.quantity >= 1

\* s without its k-th element
RemoveAt(s, k) == SubSeq(s, 1, k - 1) \o SubSeq(s, k + 1, Len(s))

\* OrderItemViewSet.create (POST /items/): [result, db]
OrderItemViewSet_create(d, data) ==
    IF ~OrderItemSerializer_is_valid(d, data)
    THEN [result |-> "ValidationError", db |-> d]
    ELSE [result |-> "ok",
          db |-> [d EXCEPT !.items[data.order] =
                     Append(@, OrderItem_save([product |-> data.product,
                                               quantity |-> data.quantity,
                                               unit_price |-> data.unit_price,
                                               total_price |-> 0]))]]

\* OrderItemViewSet.update (PUT /items/{pk}/) of the k-th item of `order`
OrderItemViewSet_update(d, order, k, data) ==
    IF ~OrderItemSerializer_is_valid(d, data)
    THEN [result |-> "ValidationError", db |-> d]
    ELSE LET item == OrderItem_save([d.items[order][k] EXCEPT
                                        !.product = data.product,
                                        !.quantity = data.quantity,
                                        !.unit_price = data.unit_price])
         IN  [result |-> "ok",
              db |-> IF data.order = order
                     THEN [d EXCEPT !.items[order][k] = item]
                     ELSE [d EXCEPT !.items[order] = RemoveAt(@, k),
                                    !.items[data.order] = Append(@, item)]]

\* OrderItemViewSet.destroy (DELETE /items/{pk}/) of the k-th item of `order`
OrderItemViewSet_destroy(d, order, k) ==
    [result |-> "ok", db |-> [d EXCEPT !.items[order] = RemoveAt(@, k)]]

ItemQuantities == {0, 2}
ItemPrices == {4}

\* POST /items/
OrderItemCreate ==
    /\ \E order \in DOMAIN orders, product \in ProductIds, quantity \in ItemQuantities,
          unit_price \in ItemPrices :
         /\ Len(items[order]) < MaxItems
         /\ LET r == OrderItemViewSet_create(DB, [order |-> order, product |-> product,
                                                  quantity |-> quantity,
                                                  unit_price |-> unit_price])
            IN  /\ Commit(r.db)
                /\ ev' = Event("item_create", order, 0, r.result, {})
    /\ UNCHANGED <<today, procs>>

\* PUT /items/{pk}/
OrderItemUpdate ==
    /\ \E order \in DOMAIN orders, to \in DOMAIN orders, quantity \in ItemQuantities,
          unit_price \in ItemPrices :
         \E k \in 1..Len(items[order]) :
            /\ to # order => Len(items[to]) < MaxItems
            /\ LET r == OrderItemViewSet_update(DB, order, k,
                            [order |-> to, product |-> items[order][k].product,
                             quantity |-> quantity, unit_price |-> unit_price])
               IN  /\ Commit(r.db)
                   /\ ev' = Event("item_update", order, 0, r.result, {})
    /\ UNCHANGED <<today, procs>>

\* DELETE /items/{pk}/
OrderItemDestroy ==
    /\ \E order \in DOMAIN orders :
         \E k \in 1..Len(items[order]) :
            LET r == OrderItemViewSet_destroy(DB, order, k)
            IN  /\ Commit(r.db)
                /\ ev' = Event("item_destroy", order, 0, r.result, {})
    /\ UNCHANGED <<today, procs>>

\* the order aggregate with the item endpoints
NextItems ==
    \/ PlaceOrder
    \/ OrderItemCreate
    \/ OrderItemUpdate
    \/ OrderItemDestroy

SpecItems == Init /\ [][NextItems]_vars

\* ------------------------------------------------------- delivery tracking
\* PUT /delivery-status/{pk}/
DeliveryStatusUpdate ==
    /\ \E id \in DOMAIN orders, status \in EventStatuses :
         \E k \in 1..Len(deliveries[id]) :
            LET r == DeliveryStatusViewSet_update(DB, id, k, status, today)
            IN  /\ r.db.invoiceSeq <= MaxInvoices
                /\ Commit(r.db)
                /\ ev' = Event("delivery_update", r.order, 0, r.result, r.saved)
    /\ UNCHANGED <<today, procs>>

\* the delivery tracker and the order status
NextDelivery ==
    \/ PlaceOrder
    \/ OrderUpdate
    \/ MarkDelivered
    \/ AddDeliveryStatus
    \/ DeliveryStatusUpdate

SpecDelivery == Init /\ [][NextDelivery]_vars

\* ------------------------------------------------------- payment endpoints
\* PUT /payments/{pk}/
PaymentUpdate ==
    /\ \E id \in DOMAIN invoices, amount \in PaymentAmounts :
         \E k \in 1..Len(payments[id]) :
            LET r == PaymentViewSet_update(DB, id, k, amount)
            IN  /\ Commit(r.db)
                /\ ev' = Event("payment_update", 0, r.invoice, r.result, {})
    /\ UNCHANGED <<today, procs>>

\* DELETE /payments/{pk}/
PaymentDestroy ==
    /\ \E id \in DOMAIN invoices :
         \E k \in 1..Len(payments[id]) :
            LET r == PaymentViewSet_destroy(DB, id, k)
            IN  /\ Commit(r.db)
                /\ ev' = Event("payment_destroy", 0, r.invoice, r.result, {})
    /\ UNCHANGED <<today, procs>>

\* invoices of delivered orders and every payment endpoint
NextLedger ==
    \/ PlaceOrder
    \/ MarkDelivered
    \/ AddPayment
    \/ PaymentUpdate
    \/ PaymentDestroy

SpecLedger == Init /\ [][NextLedger]_vars

\* ---------------------------------------------------------------- ownership
\* orders with their events and invoices, invoices with their payments and
\* credit notes, and the deletions
NextOwnership ==
    \/ PlaceOrder
    \/ AddDeliveryStatus
    \/ OrderDestroy
    \/ InvoiceDraft
    \/ InvoiceDestroy
    \/ AddPayment
    \/ AddCreditNote

SpecOwnership == Init /\ [][NextOwnership]_vars

\* ------------------------------------------------------ status transitions
\* PUT/PATCH /orders/{id}/ with any status of Order.Status
OrderTransition ==
    /\ \E id \in DOMAIN orders, status \in OrderStatus :
         LET r == OrderViewSet_update(DB, id, status, today)
         IN  /\ r.db.invoiceSeq <= MaxInvoices
             /\ Commit(r.db)
             /\ ev' = Event("update", r.order, 0, r.result, r.saved)
    /\ UNCHANGED <<today, procs>>

NextTransitions ==
    \/ PlaceOrder
    \/ OrderTransition

SpecTransitions == Init /\ [][NextTransitions]_vars

\* --------------------------------------------------- concurrent payments
\* add_payment: get_object loads the invoice, PaymentSerializer validates
ConcAddPayment(p) ==
    /\ Receives(p)
    /\ \E id \in DOMAIN invoices, amount \in PaymentAmounts :
         IF amount < 1
         THEN RespondAs(p, "add_payment", id, "ValidationError")
         ELSE /\ Goto(p, [Begin(p, "add_payment", id, "pay_insert")
                             EXCEPT !.inst = InvoiceInstance(invoices[id]),
                                    !.req = [amount |-> amount]])
              /\ UNCHANGED ev
    /\ UNCHANGED <<dbvars, today>>

\* Payment.save: super().save(), the INSERT of the payment
StepPaymentInsert(p) ==
    /\ At(p, "pay_insert")
    /\ payments' = [payments EXCEPT ![procs[p].id] = Append(@, [amount |-> procs[p].req.amount])]
    /\ Goto(p, [procs[p] EXCEPT !.pc = "pay_sum"])
    /\ UNCHANGED <<products, orders, orderSeq, items, deliveries, invoices, invoiceSeq,
                   creditNotes, creditNoteSeq, purchaseOrders, purchaseOrderSeq,
                   stockMovements, issued, origin, today, ev>>

\* Payment.save: the sum over invoice.payments.all() and the status it gives
\* the invoice instance held by the payment
StepPaymentSum(p) ==
    /\ At(p, "pay_sum")
    /\ LET rows == payments[procs[p].id]
           paid == total_paid(rows, Len(rows))
       IN  Goto(p, [procs[p] EXCEPT !.pc = "pay_save",
                                    !.inst.status = PaymentStatus(procs[p].inst, paid)])
    /\ UNCHANGED <<dbvars, today, ev>>

\* Payment.save: self.invoice.save(), the UPDATE of every column of the invoice
StepInvoiceSave(p) ==
    /\ At(p, "pay_save")
    /\ invoices' = [invoices EXCEPT ![procs[p].id] = InvoiceRow(Invoice_save(procs[p].inst))]
    /\ Respond(p, "ok")
    /\ UNCHANGED <<products, orders, orderSeq, items, deliveries, invoiceSeq, payments,
                   creditNotes, creditNoteSeq, purchaseOrders, purchaseOrderSeq,
                   stockMovements, issued, origin, today>>

\* payments recorded by two workers, and the delivery that makes a second invoice
NextPayments ==
    \E p \in Procs :
        \/ ConcMarkDelivered(p)
        \/ StepSave(p)
        \/ StepSignalExists(p)
        \/ StepSignalNumber(p)
        \/ StepSignalInsert(p)
        \/ ConcAddPayment(p)
        \/ StepPaymentInsert(p)
        \/ StepPaymentSum(p)
        \/ StepInvoiceSave(p)

SpecPayments == InitConc /\ [][NextPayments]_vars

\* ---------------------------------------------------------- stock movements
\* StockMovementSerializer.is_valid: the product exists, quantity passes
\* MinValueValidator(1)
StockMovementSerializer_is_valid(d, data) ==
    /\ data.product \in DOMAIN d.products
    /\ data.quantity >= 1

\* StockMovement.save: the product's stock is raised by the movement's quantity
\* and saved, then the row is inserted (k = 0) or updated (the k-th row)
StockMovement_save(d, k, row) ==
    LET d1 == [d EXCEPT !.products[row.product].stock_quantity = @ + row.quantity]
    IN  IF k = 0
        THEN [d1 EXCEPT !.stockMovements = Append(@, row)]
        ELSE [d1 EXCEPT !.stockMovements[k] = row]

\* StockMovementViewSet.create (POST /stock-movements/)
StockMovementViewSet_create(d, data) ==
    IF StockMovementSerializer_is_valid(d, data)
    THEN [result |-> "ok", db |-> StockMovement_save(d, 0, data)]
    ELSE [result |-> "ValidationError", db |-> d]

\* StockMovementViewSet.update (PUT /stock-movements/{pk}/) of the k-th movement
StockMovementViewSet_update(d, k, data) ==
    IF StockMovementSerializer_is_valid(d, data)
    THEN [result |-> "ok", db |-> StockMovement_save(d, k, data)]
    ELSE [result |-> "ValidationError", db |-> d]

MovementQuantities == {0, 1, 2}
MovementData == [product : ProductIds, quantity : MovementQuantities]
MovedStockCapped(d) == \A p \in ProductIds : d.products[p].stock_quantity <= MaxMovedStock

\* POST /stock-movements/
StockMovementCreate ==
    /\ Len(stockMovements) < MaxMovements
    /\ \E data \in MovementData :
         LET r == StockMovementViewSet_create(DB, data)
         IN  /\ MovedStockCapped(r.db)
             /\ Commit(r.db)
             /\ ev' = Event("movement_create", 0, 0, r.result, {})
    /\ UNCHANGED <<today, procs>>

\* PUT /stock-movements/{pk}/
StockMovementUpdate ==
    /\ \E k \in 1..Len(stockMovements), data \in MovementData :
         LET r == StockMovementViewSet_update(DB, k, data)
         IN  /\ MovedStockCapped(r.db)
             /\ Commit(r.db)
             /\ ev' = Event("movement_update", 0, 0, r.result, {})
    /\ UNCHANGED <<today, procs>>

\* the stock ledger, without orders
NextStock ==
    \/ StockMovementCreate
    \/ StockMovementUpdate

SpecStock == Init /\ [][NextStock]_vars

\* ------------------------------------------------------------------ claims
RECURSIVE ItemsTotal(_, _)
ItemsTotal(rows, k) ==
    IF k = 0 THEN 0 ELSE ItemsTotal(rows, k - 1) + rows[k].quantity * rows[k].unit_price

Created == ev.op = "create" /\ ev.result = "ok"

\* C1: after a successful OrderViewSet.create the stored order's total_amount is
\* the sum of quantity x unit_price over the items created for it, and each
\* unit_price is the price of the item's product
C1_TotalIsSumOfItems ==
    Created =>
        /\ orders[ev.order].total_amount = ItemsTotal(items[ev.order], Len(items[ev.order]))
        /\ \A k \in 1..Len(items[ev.order]) :
               items[ev.order][k].unit_price = products[items[ev.order][k].product].price

C1_Witness ==
    /\ Created
    /\ Len(items[ev.order]) = 2
    /\ items[ev.order][1].product # items[ev.order][2].product
    /\ items[ev.order][1].quantity > 0
    /\ items[ev.order][2].quantity > 0

\* C2 (as claimed): a create that answers EmptyOrder, ProductIdRequired,
\* ProductNotFound or InsufficientStock leaves the orders, the order items and
\* every product's stock as they were before the call
C2_AllOrNothing ==
    [][(/\ ev'.op = "create"
        /\ ev'.result \in {"EmptyOrder", "ProductIdRequired", "ProductNotFound",
                           "InsufficientStock"})
       => (orders' = orders /\ items' = items /\ products' = products)]_vars

\* C10 (as claimed): the numeric suffix of every order number issued is greater
\* than that of every order number issued before it
C10_OrderNumbersIncrease ==
    \A i, j \in 1..Len(issued["ORD"]) :
        i < j => Suffix(issued["ORD"][i], 3) < Suffix(issued["ORD"][j], 3)

\* C4: a save of an order with status Delivered that has no invoice creates
\* exactly one invoice, for that order; a save of an order that has an invoice
\* creates none
C4_DeliveredSaveCreatesOneInvoice ==
    [][\A id \in ev'.saved :
          /\ (orders'[id].status = DELIVERED /\ InvoiceOf(invoices, id) = {})
                => /\ Cardinality(InvoiceOf(invoices', id)) = 1
                   /\ DOMAIN invoices' \ DOMAIN invoices = InvoiceOf(invoices', id)
          /\ InvoiceOf(invoices, id) # {} => DOMAIN invoices' = DOMAIN invoices]_vars

C4_Witness ==
    /\ ev.op \in {"update", "add_delivery_status"}
    /\ ev.saved # {}
    /\ \E id \in ev.saved : orders[id].status = DELIVERED /\ InvoiceOf(invoices, id) # {}
    /\ Cardinality(DOMAIN invoices) = 2

\* C5: mark_delivered on an order that is Delivered answers AlreadyDelivered
\* and changes neither the orders nor the invoices
C5_SecondMarkDeliveredFails ==
    [][(/\ ev'.op = "mark_delivered"
        /\ ev'.order \in DOMAIN orders
        /\ orders[ev'.order].status = DELIVERED)
       => (ev'.result = "AlreadyDelivered" /\ orders' = orders /\ invoices' = invoices)]_vars

C5_Witness ==
    /\ ev.op = "mark_delivered"
    /\ ev.result = "AlreadyDelivered"
    /\ InvoiceOf(invoices, ev.order) # {}

\* C7 (as claimed): every invoice was created for an order that was Delivered
\* at that moment
C7_InvoiceOnlyForDelivered ==
    \A i \in DOMAIN origin : origin[i].order_status = DELIVERED

\* C7 (amended): every invoice created by handle_order_status_change was
\* created for an order that was Delivered at that moment; the others were
\* created by InvoiceViewSet.create
C7_SignalInvoiceOnlyForDelivered ==
    \A i \in DOMAIN origin :
        \/ origin[i].by = "signal" /\ origin[i].order_status = DELIVERED
        \/ origin[i].by = "api"

C7_Witness ==
    /\ \E i \in DOMAIN invoices : origin[i].by = "signal"
    /\ \E i \in DOMAIN invoices : origin[i].by = "api" /\ origin[i].order_status # DELIVERED

Paid(id) == total_paid(payments[id], Len(payments[id]))

\* C8: after a payment is recorded the invoice is Paid if its payments sum to
\* at least its total_amount, PartiallyPaid if they sum to more than 0 and less
C8_StatusAfterPayment ==
    (ev.op = "add_payment" /\ ev.result = "ok") =>
        LET inv == invoices[ev.invoice]
            paid == Paid(ev.invoice)
        IN  /\ paid >= inv.total_amount => inv.status = INV_PAID
            /\ (0 < paid /\ paid < inv.total_amount) => inv.status = INV_PARTIALLY_PAID

C8_Witness ==
    /\ ev.op = "add_payment" /\ ev.result = "ok"
    /\ Len(payments[ev.invoice]) = 2
    /\ Paid(ev.invoice) = invoices[ev.invoice].total_amount
    /\ \E i \in DOMAIN invoices : 0 < Paid(i) /\ Paid(i) < invoices[i].total_amount

NewSignalInvoices == {i \in DOMAIN invoices' \ DOMAIN invoices : origin'[i].by = "signal"}

\* C9 (as claimed): the invoice created for a delivered order has subtotal the
\* order's total, tax_rate 20, tax_amount = subtotal x 20 / 100, total_amount =
\* subtotal + tax_amount, due_date = issue_date + 30 and status Pending
C9_AutoInvoiceExact ==
    [][\A i \in NewSignalInvoices :
          LET inv == invoices'[i]
          IN  /\ inv.subtotal = orders'[inv.order].total_amount
              /\ inv.tax_rate = 20 * 100
              /\ inv.tax_amount * 100 = inv.subtotal * 20
              /\ inv.total_amount = inv.subtotal + inv.tax_amount
              /\ inv.due_date = inv.issue_date + 30
              /\ inv.status = INV_PENDING]_vars

\* C9 (amended): as claimed, with tax_amount = subtotal x 20 / 100 rounded to
\* two decimal places, and issue_date the day of the save
C9_AutoInvoiceRounded ==
    [][\A i \in NewSignalInvoices :
          LET inv == invoices'[i]
          IN  /\ inv.subtotal = orders'[inv.order].total_amount
              /\ inv.tax_rate = 20 * 100
              /\ inv.tax_amount = Quantize(inv.subtotal * 20, 100)
              /\ inv.total_amount = inv.subtotal + inv.tax_amount
              /\ inv.issue_date = today
              /\ inv.due_date = inv.issue_date + 30
              /\ inv.status = INV_PENDING]_vars

C9_Witness ==
    \E i \in DOMAIN invoices :
        /\ origin[i].by = "signal"
        /\ invoices[i].subtotal = 3
        /\ invoices[i].tax_amount = 1
        /\ invoices[i].total_amount = 4
        /\ invoices[i].issue_date = 1

\* the length of the prefix of the numbers of each entity type
PrefixLen(kind) == IF kind \in {"ORD", "INV"} THEN 3 ELSE 2

\* C3 (as claimed): under concurrent creation the numbers issued to the
\* creations of one entity type (orders, invoices, credit notes, purchase
\* orders) are pairwise distinct, and each is greater than every number issued
\* before it
C3_IssuedNumbersIncrease ==
    \A kind \in DOMAIN issued :
        \A i, j \in 1..Len(issued[kind]) :
            i < j => Suffix(issued[kind][i], PrefixLen(kind))
                        < Suffix(issued[kind][j], PrefixLen(kind))

\* C6: in every reachable state of every interleaving of mark_delivered,
\* status updates, delivery status events and invoice creations, an order has
\* at most one invoice
C6_AtMostOneInvoicePerOrder ==
    \A order \in 1..orderSeq : Cardinality(InvoiceOf(invoices, order)) <= 1

\* the post_save handler of a Delivered order lost the race: its INSERT of a
\* second invoice for the order was refused
C6_Witness ==
    /\ ev.op \in {"mark_delivered", "update", "add_delivery_status"}
    /\ ev.result = "UnexpectedError"
    /\ ev.order \in DOMAIN orders
    /\ orders[ev.order].status = DELIVERED
    /\ Cardinality(InvoiceOf(invoices, ev.order)) = 1
    /\ \E kept \in InvoiceOf(invoices, ev.order) :
         invoices[kept].invoice_number # issued["INV"][Len(issued["INV"])]

\* `number` is `prefix` followed by n zero-padded to NumberWidth digits
Padded(number, prefix, n) ==
    /\ SubSeq(number, 1, Len(prefix)) = prefix
    /\ Len(number) >= Len(prefix) + NumberWidth
    /\ \A k \in Len(prefix) + 1..Len(number) : \E v \in 0..9 : Digits[v + 1] = number[k]
    /\ Len(number) > Len(prefix) + NumberWidth => number[Len(prefix) + 1] # "0"
    /\ int(SubSeq(number, Len(prefix) + 1, Len(number))) = n

\* the suffix of the record with the highest primary key, 0 when none
LastSuffix(table, field, k) ==
    IF DOMAIN table = {} THEN 0
    ELSE LET last == CHOOSE i \in DOMAIN table : \A j \in DOMAIN table : j <= i
         IN  int(SubSeq(table[last][field], k + 1, Len(table[last][field])))

C12_TotalFollowsItems ==
    \A id \in DOMAIN orders :
        orders[id].total_amount = ItemsTotal(items[id], Len(items[id]))

RECURSIVE Ordered(_, _, _)
\* the quantity of product p in the first k rows
Ordered(rows, p, k) ==
    IF k = 0 THEN 0
    ELSE Ordered(rows, p, k - 1) + (IF rows[k].product = p THEN rows[k].quantity ELSE 0)

\* the step is a successful OrderViewSet.create
CreatedNow == orderSeq' = orderSeq + 1 /\ ev'.op = "create" /\ ev'.result = "ok"

\* C13: a successful create made each item only when its quantity did not
\* exceed the stock left at that moment, it leaves each product's stock at its
\* value before the call minus the quantity ordered of the product, and no
\* step leaves a negative stock
C13_StockValidatedAndDecremented ==
    [][/\ \A p \in ProductIds : products'[p].stock_quantity >= 0
       /\ CreatedNow =>
            LET rows == items'[ev'.order]
            IN  /\ \A p \in ProductIds :
                       products'[p].stock_quantity
                           = products[p].stock_quantity - Ordered(rows, p, Len(rows))
                /\ \A k \in 1..Len(rows) :
                       rows[k].quantity <= products[rows[k].product].stock_quantity
                                             - Ordered(rows, rows[k].product, k - 1)]_vars

\* an order of two items of the same product took the whole stock
C13_Witness ==
    /\ Created
    /\ Len(items[ev.order]) = 2
    /\ items[ev.order][1].product = 1 /\ items[ev.order][1].quantity = 1
    /\ items[ev.order][2].product = 1 /\ items[ev.order][2].quantity = 1
    /\ products[1].stock_quantity = 0

\* C14: a step that issues a credit note on an invoice adds exactly that credit
\* note, numbered CN + six digits after the last one, and leaves every invoice
\* (status, subtotal, tax_amount, total_amount) and every payment as it was
C14_CreditNoteFrame ==
    [][creditNoteSeq' = creditNoteSeq + 1 =>
          /\ ev'.op = "add_credit_note" /\ ev'.result = "ok"
          /\ invoices' = invoices
          /\ payments' = payments
          /\ DOMAIN creditNotes' = DOMAIN creditNotes \cup {creditNoteSeq'}
          /\ \A c \in DOMAIN creditNotes : creditNotes'[c] = creditNotes[c]
          /\ creditNotes'[creditNoteSeq'].invoice = ev'.invoice
          /\ Padded(creditNotes'[creditNoteSeq'].credit_note_number, <<"C", "N">>,
                    LastSuffix(creditNotes, "credit_note_number", 2) + 1)]_vars

\* a credit note was issued on a partially paid invoice
C14_Witness ==
    /\ ev.op = "add_credit_note" /\ ev.result = "ok"
    /\ \E c \in DOMAIN creditNotes : creditNotes[c].invoice = ev.invoice
    /\ invoices[ev.invoice].status = INV_PARTIALLY_PAID
    /\ Len(payments[ev.invoice]) = 1

\* C15: a step that creates a delivery status event of an order appends it and
\* leaves the order with the status of the event (its other fields as they
\* were); a step that updates an existing event leaves the order as it was
C15_EventSetsOrderStatus ==
    [][\A id \in DOMAIN orders \cap DOMAIN orders' :
          /\ Len(deliveries'[id]) = Len(deliveries[id]) + 1 =>
                /\ SubSeq(deliveries'[id], 1, Len(deliveries[id])) = deliveries[id]
                /\ orders'[id] = [orders[id] EXCEPT
                                    !.status = deliveries'[id][Len(deliveries'[id])].status]
          /\ (Len(deliveries'[id]) = Len(deliveries[id]) /\ deliveries'[id] # deliveries[id])
                => orders'[id] = orders[id]]_vars

\* an existing event was changed to Delivered and its order stayed in transit
C15_Witness ==
    /\ ev.op = "delivery_update" /\ ev.result = "ok"
    /\ deliveries[ev.order][1].status = DELIVERED
    /\ orders[ev.order].status = "IT"

\* C16 (as claimed): once an order is Delivered or Cancelled, no step (status
\* update, mark_delivered, delivery status event) changes its status
C16_TerminalStatusKept ==
    [][\A id \in DOMAIN orders \cap DOMAIN orders' :
          orders[id].status \in {DELIVERED, CANCELLED}
              => orders'[id].status = orders[id].status]_vars

\* C17 (as claimed): every order made by a successful creation has status
\* Pending, whatever the request holds, and has no invoice when the creation
\* returns
C17_CreatedPendingWithoutInvoice ==
    Created =>
        /\ orders[ev.order].status = PENDING
        /\ InvoiceOf(invoices, ev.order) = {}

\* C18 (as claimed): the payments of an invoice are append-only: every step
\* keeps each recorded payment and its amount, so the total paid on an invoice
\* never decreases
C18_LedgerAppendOnly ==
    [][\A id \in DOMAIN payments \cap DOMAIN payments' :
          /\ Len(payments'[id]) >= Len(payments[id])
          /\ SubSeq(payments'[id], 1, Len(payments[id])) = payments[id]
          /\ total_paid(payments'[id], Len(payments'[id]))
                >= total_paid(payments[id], Len(payments[id]))]_vars

\* C19 (as claimed): every order item has quantity >= 1, also the items
\* OrderViewSet.create makes from the quantities of the request
C19_QuantityAtLeastOne ==
    \A id \in DOMAIN items : \A k \in 1..Len(items[id]) : items[id][k].quantity >= 1

\* every item, event and invoice belongs to an existing order, every payment
\* and credit note to an existing invoice
Owned(d) ==
    /\ DOMAIN d.items = DOMAIN d.orders
    /\ DOMAIN d.deliveries = DOMAIN d.orders
    /\ \A i \in DOMAIN d.invoices : d.invoices[i].order \in DOMAIN d.orders
    /\ DOMAIN d.payments = DOMAIN d.invoices
    /\ \A c \in DOMAIN d.creditNotes : d.creditNotes[c].invoice \in DOMAIN d.invoices

HasEntries(id) ==
    payments[id] # <<>> \/ \E c \in DOMAIN creditNotes : creditNotes[c].invoice = id

\* C20: ownership holds before and after every step; a deleted order had no
\* invoice and its items and events are gone with it; a deleted invoice had no
\* payment and no credit note; DELETE of an order that has an invoice, or of
\* an invoice that has payments or credit notes, is refused and changes nothing
C20_Ownership ==
    [][/\ Owned(DB)
       /\ Owned(DB)'
       /\ \A id \in DOMAIN orders \ DOMAIN orders' :
             /\ InvoiceOf(invoices, id) = {}
             /\ id \notin DOMAIN items'
             /\ id \notin DOMAIN deliveries'
       /\ \A id \in DOMAIN invoices \ DOMAIN invoices' : ~HasEntries(id)
       /\ (ev'.op = "destroy" /\ InvoiceOf(invoices, ev'.order) # {})
             => (ev'.result = "ProtectedError" /\ UNCHANGED dbvars)
       /\ (ev'.op = "invoice_destroy" /\ ev'.invoice \in DOMAIN invoices
             /\ HasEntries(ev'.invoice))
             => (ev'.result = "ProtectedError" /\ UNCHANGED dbvars)]_vars

\* DELETE of an order was refused: the order has an event, items and an
\* invoice that has a payment
C20_Witness ==
    /\ ev.op = "destroy" /\ ev.result = "ProtectedError"
    /\ ev.order \in DOMAIN orders
    /\ deliveries[ev.order] # <<>>
    /\ items[ev.order] # <<>>
    /\ \E i \in InvoiceOf(invoices, ev.order) : payments[i] # <<>>

C22_StatusChangeKeepsEvents ==
    [][ev'.op \in {"update", "mark_delivered"} => deliveries' = deliveries]_vars

\* mark_delivered succeeded on an order whose only event says In Transit
C22_Witness ==
    /\ ev.op = "mark_delivered" /\ ev.result = "ok"
    /\ ev.order \in DOMAIN orders
    /\ orders[ev.order].status = DELIVERED
    /\ deliveries[ev.order] = <<[status |-> "IT"]>>

Amounts(row) == <<row.subtotal, row.tax_rate, row.tax_amount, row.total_amount>>

\* C23: the amounts of an invoice are fixed at creation: once an invoice exists
\* with non-zero tax_amount and total_amount, recording payments, issuing credit
\* notes and further saves of its order leave its subtotal, tax_rate, tax_amount
\* and total_amount unchanged.
C23_InvoiceAmountsFixed ==
    [][\A i \in DOMAIN invoices :
          (invoices[i].tax_amount # 0 /\ invoices[i].total_amount # 0)
              => (i \in DOMAIN invoices' /\ Amounts(invoices'[i]) = Amounts(invoices[i]))]_vars

\* a payment was recorded on an invoice with non-zero amounts that also has a
\* credit note
C23_Witness ==
    /\ ev.op = "add_payment" /\ ev.result = "ok"
    /\ ev.invoice \in DOMAIN invoices
    /\ invoices[ev.invoice].tax_amount # 0 /\ invoices[ev.invoice].total_amount # 0
    /\ payments[ev.invoice] # <<>>
    /\ \E c \in DOMAIN creditNotes : creditNotes[c].invoice = ev.invoice

RECURSIVE Sold(_, _)
\* the quantity of product p in the items of the orders `ids`
Sold(p, ids) ==
    IF ids = {} THEN 0
    ELSE LET id == CHOOSE x \in ids : TRUE
         IN  Ordered(items[id], p, Len(items[id])) + Sold(p, ids \ {id})

\* C24: stock is conserved under concurrent order creation: once every request
\* has completed, each product's stock is its initial stock minus the quantities
\* of all order items created for it, and these quantities never exceed the
\* initial stock.
C24_StockConserved ==
    (\A w \in Procs : procs[w].pc = "idle") =>
        \A p \in ProductIds :
            /\ products[p].stock_quantity
                   = InitDB.products[p].stock_quantity - Sold(p, DOMAIN items)
            /\ Sold(p, DOMAIN items) <= InitDB.products[p].stock_quantity

\* C25: when several payments are recorded concurrently on one invoice, then
\* once all of them have completed the invoice is Paid if the payments sum to
\* its total_amount or more, and Partially Paid if the sum is positive and
\* below it.
C25_StatusAfterConcurrentPayments ==
    (\A w \in Procs : procs[w].pc = "idle") =>
        \A i \in DOMAIN invoices :
            LET paid == total_paid(payments[i], Len(payments[i]))
            IN  /\ paid >= invoices[i].total_amount /\ paid > 0
                    => invoices[i].status = INV_PAID
                /\ 0 < paid /\ paid < invoices[i].total_amount
                    => invoices[i].status = INV_PARTIALLY_PAID

\* C26: an invoice whose status is Paid has payments that sum to its
\* total_amount or more, after any sequence of payment creations, updates,
\* deletions and invoice updates (a sequence of payment requests shows it).
C26_PaidIsCovered ==
    \A i \in DOMAIN invoices :
        invoices[i].status = INV_PAID
            => total_paid(payments[i], Len(payments[i])) >= invoices[i].total_amount

\* C27: in every state with no request in progress, every order whose status
\* is Delivered has exactly one invoice, for any sequence and interleaving of
\* order, delivery event and invoice requests.
C27_DeliveredHasOneInvoice ==
    (\A w \in Procs : procs[w].pc = "idle") =>
        \A id \in DOMAIN orders :
            orders[id].status = DELIVERED => Cardinality(InvoiceOf(invoices, id)) = 1

C29_CancelledStaysCancelled ==
    [][\A i \in DOMAIN invoices :
          (invoices[i].status = "CA" /\ Len(payments'[i]) > Len(payments[i]))
              => invoices'[i].status = "CA"]_vars

RECURSIVE Moved(_, _)
\* the quantity the first k stock movements record for product p
Moved(p, k) ==
    IF k = 0 THEN 0
    ELSE Moved(p, k - 1) + (IF stockMovements[k].product = p
                            THEN stockMovements[k].quantity ELSE 0)

\* C30: each stock movement is applied to its product's stock exactly once:
\* after any sequence of stock movement creations and edits (and no order
\* creation), a product's stock is its initial stock plus the sum of the
\* quantities of its existing stock movements.
C30_MovementAppliedOnce ==
    \A p \in ProductIds :
        products[p].stock_quantity
            = InitDB.products[p].stock_quantity + Moved(p, Len(stockMovements))

====
